---- MODULE Spec2Model ----
(***************************************************************************)
(* Model of backend/main.py: the OTP-gated registration flow, login and    *)
(* session tokens, and the administrator user-management routes, over the  *)
(* two document collections `users` and `otps`.                            *)
(*                                                                         *)
(* Time is counted in minutes.  Every handler is one action; the HTTP      *)
(* response of the last request is kept in `resp`.                         *)
(***************************************************************************)
EXTENDS Integers, Sequences, FiniteSets, TLC

VARIABLES now,          \* datetime.utcnow(), in minutes
          users,        \* collection db.users
          nextUserId,   \* next _id the store hands out for a user
          otps,         \* collection db.otps
          nextOtpId,    \* next _id the store hands out for an OTP record
          tokens,       \* bearer tokens issued so far (held by clients)
          resp,         \* response of the last request
          verifiedLog,  \* history: emails for which verify_otp has succeeded
          registeredLog,\* history: emails for which register has succeeded
          sendLog,      \* history: [email, time] of every successful send_otp
          limitedAt,    \* history: per email, time of its first 429 (or -1)
          resentLog,    \* history: emails for which resend_otp has succeeded
          calls         \* per task, the request it is serving between two awaits

vars == <<now, users, nextUserId, otps, nextOtpId, tokens, resp,
          verifiedLog, registeredLog, sendLog, limitedAt, resentLog, calls>>

store == <<users, nextUserId, otps, nextOtpId, tokens>>
flowLogs == <<verifiedLog, registeredLog>>
rateLogs == <<sendLog, limitedAt, resentLog>>
logs == <<flowLogs, rateLogs>>

(***************************************************************************)
(* Program constants                                                       *)
(***************************************************************************)
ACCESS_TOKEN_EXPIRE_MINUTES == 60
OTP_EXPIRE_MINUTES == 10
RATE_WINDOW_MINUTES == 60
RATE_LIMIT == 5
DELETE_ADMIN == "DELETE ADMIN"

(***************************************************************************)
(* Bounds of the model                                                     *)
(***************************************************************************)
MaxTime == 15        \* the clock stops here (general specification)
MaxOtps == 2         \* OTP records inserted in one behaviour (general)
MaxUserIds == 4      \* user _ids handed out, the three seeded ones included
MaxTokens == 1       \* distinct tokens issued in one behaviour (administration)
MaxRateTime == 61    \* the clock stops here (rate-limit specification)
MaxRateOtps == 6     \* OTP records inserted in one behaviour (rate-limit)
MaxRaceUserIds == 5  \* user _ids handed out (interleaved registration)
MaxSessionTokens == 2 \* distinct tokens issued in one behaviour (sessions)

TickSteps == {5}
RateTickSteps == {30, 31}
Emails == {"a@x.io", "b@x.io"}
Codes == {"000000", "123456"}
Passwords == {"pw", "bad"}
NewUsernames == {"alice", "root"}
Confirmations == {"", "DELETE ADMIN", "delete admin"}
Tasks == {"t1", "t2"}   \* request-handling tasks that can be in flight together
RaceUsernames == {"alice", "carol"}
RegisterUsernames == NewUsernames \cup RaceUsernames
NoEmail == ""        \* a document without an email field
NoCode == ""         \* a response body without otp_code
InvalidId == 0       \* an id string that ObjectId() rejects

(***************************************************************************)
(* Credential utilities                                                    *)
(***************************************************************************)
hash_password(password) == <<"bcrypt", password>>

verify_password(password, password_hash) == password_hash = hash_password(password)

create_access_token(sub, t) == [sub |-> sub, exp |-> t + ACCESS_TOKEN_EXPIRE_MINUTES]

NoToken == [sub |-> "", exp |-> 0]

\* mutant: the exp claim is not looked at
TokenExpired_Never(tok, t) == FALSE

\* jwt.decode raises ExpiredSignatureError once the exp claim is reached
TokenExpired(tok, t) == tok.exp <= t

(***************************************************************************)
(* OTP utilities                                                           *)
(***************************************************************************)
is_otp_expired(expires_at, t) == t > expires_at

\* mutant: the sweep spares the used records
cleanup_expired_otps_UnusedOnly(S, t) == {r \in S : r.is_used \/ ~(r.expires_at < t)}

cleanup_expired_otps(S, t) == {r \in S : ~(r.expires_at < t)}

NewOtp(id, email, code, t) ==
    [id |-> id, email |-> email, otp_code |-> code, is_used |-> FALSE,
     expires_at |-> t + OTP_EXPIRE_MINUTES, created_at |-> t]

\* mutant: the count takes every stored record of the email, whatever its age
recent_otps_NoWindow(S, email, t) ==
    Cardinality({r \in S : r.email = email})

recent_otps(S, email, t) ==
    Cardinality({r \in S : r.email = email
                           /\ r.created_at >= t - RATE_WINDOW_MINUTES})

(***************************************************************************)
(* Responses                                                               *)
(***************************************************************************)
Resp(op, status, detail) ==
    [op |-> op, status |-> status, detail |-> detail, email |-> NoEmail,
     otp_code |-> NoCode, expires_in_minutes |-> 0, token |-> NoToken,
     deleted |-> <<>>, failed |-> <<>>]

(***************************************************************************)
(* Users                                                                   *)
(***************************************************************************)
NewUser(id, username, email, password, is_admin, via) ==
    [id |-> id, username |-> username, email |-> email,
     password_hash |-> hash_password(password), is_verified |-> TRUE,
     is_admin |-> is_admin, via |-> via]

LegacyEmail(username) == username \o "@legacy.local"

ByUsername(U, username) == {u \in U : u.username = username}
ByEmail(U, email) == {u \in U : u.email = email}
ById(U, id) == {u \in U : u.id = id}

\* mutant: the collection has no unique index
DuplicateKey_NoIndex(U, doc) == FALSE

\* the unique indexes on users.username and users.email
DuplicateKey(U, doc) ==
    \E u \in U : u.id # doc.id /\ (u.username = doc.username \/ u.email = doc.email)

SeedUsers ==
    { [id |-> 1, username |-> "root", email |-> "root@admin.local",
       password_hash |-> hash_password("pw"), is_verified |-> TRUE,
       is_admin |-> TRUE, via |-> "seed"],
      [id |-> 2, username |-> "old", email |-> NoEmail,
       password_hash |-> hash_password("pw"), is_verified |-> FALSE,
       is_admin |-> FALSE, via |-> "seed"],
      [id |-> 3, username |-> "pend", email |-> "pend@x.io",
       password_hash |-> hash_password("pw"), is_verified |-> FALSE,
       is_admin |-> FALSE, via |-> "seed"] }

Idle == [op |-> "idle"]

Init ==
    /\ now = 0
    /\ users = SeedUsers
    /\ nextUserId = 4
    /\ otps = {}
    /\ nextOtpId = 1
    /\ tokens = {}
    /\ resp = Resp("none", 0, "")
    /\ verifiedLog = {}
    /\ registeredLog = {}
    /\ sendLog = <<>>
    /\ limitedAt = [e \in Emails |-> -1]
    /\ resentLog = {}
    /\ calls = [p \in Tasks |-> Idle]

(***************************************************************************)
(* The clock, and a restart of the process                                 *)
(***************************************************************************)
Tick(d, limit) ==
    /\ now + d <= limit
    /\ now' = now + d
    /\ UNCHANGED <<store, resp>>

\* startup_event: the expired OTP records are swept when the process starts
startup_event ==
    /\ otps' = cleanup_expired_otps(otps, now)
    /\ resp' = Resp("startup", 0, "")
    /\ UNCHANGED <<now, users, nextUserId, nextOtpId, tokens>>

(***************************************************************************)
(* POST /auth/send-otp                                                     *)
(***************************************************************************)
\* mutant: the already-registered check comes before the rate limit
SendOtpOutcome_RegisteredFirst(email) ==
    IF ByEmail(users, email) # {} THEN "registered"
    ELSE IF recent_otps(otps, email, now) >= RATE_LIMIT THEN "rate_limited"
    ELSE "ok"

SendOtpOutcome(email) ==
    IF recent_otps(otps, email, now) >= RATE_LIMIT THEN "rate_limited"
    ELSE IF ByEmail(users, email) # {} THEN "registered"
    ELSE "ok"

\* mutant: a failed delivery fails the request and takes the record back
send_otp_MailIsFatal(email, code, email_sent) ==
    /\ CASE SendOtpOutcome(email) = "rate_limited" ->
             /\ resp' = [Resp("send_otp", 429,
                     "Too many OTP requests. Please wait before requesting another OTP.")
                         EXCEPT !.email = email]
             /\ UNCHANGED <<otps, nextOtpId>>
         [] SendOtpOutcome(email) = "registered" ->
             /\ resp' = [Resp("send_otp", 400, "Email already registered")
                         EXCEPT !.email = email]
             /\ UNCHANGED <<otps, nextOtpId>>
         [] OTHER ->
             /\ otps' = cleanup_expired_otps(otps, now)
                            \cup (IF email_sent
                                  THEN {NewOtp(nextOtpId, email, code, now)} ELSE {})
             /\ nextOtpId' = nextOtpId + 1
             /\ resp' = IF email_sent
                        THEN [Resp("send_otp", 200, "OTP sent successfully via email")
                              EXCEPT !.email = email, !.expires_in_minutes = 10]
                        ELSE [Resp("send_otp", 500, "Failed to send OTP")
                              EXCEPT !.email = email]
    /\ UNCHANGED <<now, users, nextUserId, tokens>>

\* mutant: a new request removes the email's earlier unused codes
send_otp_InvalidatesOld(email, code, email_sent) ==
    /\ CASE SendOtpOutcome(email) = "rate_limited" ->
             /\ resp' = [Resp("send_otp", 429,
                     "Too many OTP requests. Please wait before requesting another OTP.")
                         EXCEPT !.email = email]
             /\ UNCHANGED <<otps, nextOtpId>>
         [] SendOtpOutcome(email) = "registered" ->
             /\ resp' = [Resp("send_otp", 400, "Email already registered")
                         EXCEPT !.email = email]
             /\ UNCHANGED <<otps, nextOtpId>>
         [] OTHER ->
             /\ otps' = {r \in cleanup_expired_otps(otps, now) :
                             ~(r.email = email /\ ~r.is_used)}
                            \cup {NewOtp(nextOtpId, email, code, now)}
             /\ nextOtpId' = nextOtpId + 1
             /\ resp' = [Resp("send_otp", 200,
                             IF email_sent THEN "OTP sent successfully via email"
                             ELSE "OTP sent successfully (email failed, check server logs)")
                         EXCEPT !.email = email,
                                !.otp_code = IF email_sent THEN NoCode ELSE code,
                                !.expires_in_minutes = 10]
    /\ UNCHANGED <<now, users, nextUserId, tokens>>

send_otp(email, code, email_sent) ==
    /\ CASE SendOtpOutcome(email) = "rate_limited" ->
             /\ resp' = [Resp("send_otp", 429,
                     "Too many OTP requests. Please wait before requesting another OTP.")
                         EXCEPT !.email = email]
             /\ UNCHANGED <<otps, nextOtpId>>
         [] SendOtpOutcome(email) = "registered" ->
             /\ resp' = [Resp("send_otp", 400, "Email already registered")
                         EXCEPT !.email = email]
             /\ UNCHANGED <<otps, nextOtpId>>
         [] OTHER ->
             /\ otps' = cleanup_expired_otps(otps, now)
                            \cup {NewOtp(nextOtpId, email, code, now)}
             /\ nextOtpId' = nextOtpId + 1
             /\ resp' = [Resp("send_otp", 200,
                             IF email_sent THEN "OTP sent successfully via email"
                             ELSE "OTP sent successfully (email failed, check server logs)")
                         EXCEPT !.email = email,
                                !.otp_code = IF email_sent THEN NoCode ELSE code,
                                !.expires_in_minutes = 10]
    /\ UNCHANGED <<now, users, nextUserId, tokens>>

(***************************************************************************)
(* POST /auth/verify-otp                                                   *)
(***************************************************************************)
MatchesIn(S, email, code) ==
    {r \in S : r.email = email /\ r.otp_code = code /\ ~r.is_used}

VerifyMatches(email, code) == MatchesIn(otps, email, code)

\* mutant: a refused code burns the email's outstanding codes
verify_otp_Burn(email, code) ==
    /\ IF MatchesIn(otps, email, code) = {}
       THEN /\ resp' = [Resp("verify_otp", 400, "Invalid OTP") EXCEPT !.email = email]
            /\ otps' = {r \in otps : ~(r.email = email /\ ~r.is_used)}
       ELSE \E otp_record \in MatchesIn(otps, email, code) :
              IF is_otp_expired(otp_record.expires_at, now)
              THEN /\ resp' = [Resp("verify_otp", 400, "OTP has expired")
                               EXCEPT !.email = email]
                   /\ UNCHANGED otps
              ELSE /\ otps' = (otps \ {otp_record})
                                 \cup {[otp_record EXCEPT !.is_used = TRUE]}
                   /\ resp' = [Resp("verify_otp", 200, "OTP verified successfully")
                               EXCEPT !.email = email]
    /\ UNCHANGED <<now, users, nextUserId, nextOtpId, tokens>>

\* mutant: the expiry check deletes the expired record it found
verify_otp_DropExpired(email, code) ==
    /\ IF MatchesIn(otps, email, code) = {}
       THEN /\ resp' = [Resp("verify_otp", 400, "Invalid OTP") EXCEPT !.email = email]
            /\ UNCHANGED otps
       ELSE \E otp_record \in MatchesIn(otps, email, code) :
              IF is_otp_expired(otp_record.expires_at, now)
              THEN /\ resp' = [Resp("verify_otp", 400, "OTP has expired")
                               EXCEPT !.email = email]
                   /\ otps' = otps \ {otp_record}
              ELSE /\ otps' = (otps \ {otp_record})
                                 \cup {[otp_record EXCEPT !.is_used = TRUE]}
                   /\ resp' = [Resp("verify_otp", 200, "OTP verified successfully")
                               EXCEPT !.email = email]
    /\ UNCHANGED <<now, users, nextUserId, nextOtpId, tokens>>

\* what verify_otp can answer over the records S at time t: find_one may
\* return any of the matching records
VerifyOutcomes(S, t, email, code) ==
    IF MatchesIn(S, email, code) = {} THEN {"invalid"}
    ELSE {IF is_otp_expired(r.expires_at, t) THEN "expired" ELSE "ok" :
              r \in MatchesIn(S, email, code)}

verify_otp(email, code) ==
    /\ IF VerifyMatches(email, code) = {}
       THEN /\ resp' = [Resp("verify_otp", 400, "Invalid OTP") EXCEPT !.email = email]
            /\ UNCHANGED otps
       ELSE \E otp_record \in VerifyMatches(email, code) :   \* find_one
              IF is_otp_expired(otp_record.expires_at, now)
              THEN /\ resp' = [Resp("verify_otp", 400, "OTP has expired")
                               EXCEPT !.email = email]
                   /\ UNCHANGED otps
              ELSE /\ otps' = (otps \ {otp_record})
                                 \cup {[otp_record EXCEPT !.is_used = TRUE]}
                   /\ resp' = [Resp("verify_otp", 200, "OTP verified successfully")
                               EXCEPT !.email = email]
    /\ UNCHANGED <<now, users, nextUserId, nextOtpId, tokens>>

(***************************************************************************)
(* POST /auth/register                                                     *)
(***************************************************************************)
\* mutant: any record of the email counts as a verification
VerifiedOtps_AnyRecord(email) == {r \in otps : r.email = email}

\* mutant: only an unexpired used record counts as a verification
VerifiedOtps_Unexpired(email) ==
    {r \in otps : r.email = email /\ r.is_used /\ ~is_otp_expired(r.expires_at, now)}

VerifiedOtps(email) == {r \in otps : r.email = email /\ r.is_used}

\* mutant: the verification check comes first
RegisterOutcome_VerifiedFirst(username, email) ==
    IF VerifiedOtps(email) = {} THEN "not_verified"
    ELSE IF ByUsername(users, username) # {} THEN "username_taken"
    ELSE IF ByEmail(users, email) # {} THEN "email_taken"
    ELSE "ok"

\* mutant: the email is looked up before the username
RegisterOutcome_EmailFirst(username, email) ==
    IF ByEmail(users, email) # {} THEN "email_taken"
    ELSE IF ByUsername(users, username) # {} THEN "username_taken"
    ELSE IF VerifiedOtps(email) = {} THEN "not_verified"
    ELSE "ok"

RegisterOutcome(username, email) ==
    IF ByUsername(users, username) # {} THEN "username_taken"
    ELSE IF ByEmail(users, email) # {} THEN "email_taken"
    ELSE IF VerifiedOtps(email) = {} THEN "not_verified"
    ELSE "ok"

\* mutant: the clean-up removes every OTP record of the email
register_DeleteAllOfEmail(username, email, password) ==
    /\ CASE RegisterOutcome(username, email) = "username_taken" ->
             /\ resp' = [Resp("register", 400, "Username already exists")
                         EXCEPT !.email = email]
             /\ UNCHANGED <<users, nextUserId, otps>>
         [] RegisterOutcome(username, email) = "email_taken" ->
             /\ resp' = [Resp("register", 400, "Email already registered")
                         EXCEPT !.email = email]
             /\ UNCHANGED <<users, nextUserId, otps>>
         [] RegisterOutcome(username, email) = "not_verified" ->
             /\ resp' = [Resp("register", 400,
                     "Email not verified. Please verify your email with OTP first.")
                         EXCEPT !.email = email]
             /\ UNCHANGED <<users, nextUserId, otps>>
         [] OTHER ->
                /\ users' = users \cup {NewUser(nextUserId, username, email,
                                                password, FALSE, "register")}
                /\ nextUserId' = nextUserId + 1
                /\ otps' = {r \in otps : r.email # email}
                /\ resp' = [Resp("register", 200, "User registered successfully")
                            EXCEPT !.email = email]
    /\ UNCHANGED <<now, nextOtpId, tokens>>

register(username, email, password) ==
    /\ CASE RegisterOutcome(username, email) = "username_taken" ->
             /\ resp' = [Resp("register", 400, "Username already exists")
                         EXCEPT !.email = email]
             /\ UNCHANGED <<users, nextUserId, otps>>
         [] RegisterOutcome(username, email) = "email_taken" ->
             /\ resp' = [Resp("register", 400, "Email already registered")
                         EXCEPT !.email = email]
             /\ UNCHANGED <<users, nextUserId, otps>>
         [] RegisterOutcome(username, email) = "not_verified" ->
             /\ resp' = [Resp("register", 400,
                     "Email not verified. Please verify your email with OTP first.")
                         EXCEPT !.email = email]
             /\ UNCHANGED <<users, nextUserId, otps>>
         [] OTHER ->
             \E verified_otp \in VerifiedOtps(email) :          \* find_one
                /\ users' = users \cup {NewUser(nextUserId, username, email,
                                                password, FALSE, "register")}
                /\ nextUserId' = nextUserId + 1
                /\ otps' = otps \ {verified_otp}
                /\ resp' = [Resp("register", 200, "User registered successfully")
                            EXCEPT !.email = email]
    /\ UNCHANGED <<now, nextOtpId, tokens>>

\* register in a run where otps.delete_one raises (the store became
\* unreachable after insert_one): `except Exception` answers 500
register_delete_one_raises(username, email, password) ==
    /\ IF RegisterOutcome(username, email) # "ok"
       THEN register(username, email, password)
       ELSE /\ users' = users \cup {NewUser(nextUserId, username, email,
                                             password, FALSE, "register")}
            /\ nextUserId' = nextUserId + 1
            /\ resp' = [Resp("register", 500, "Failed to register user")
                        EXCEPT !.email = email]
            /\ UNCHANGED <<now, otps, nextOtpId, tokens>>

(***************************************************************************)
(* POST /auth/resend-otp                                                   *)
(***************************************************************************)
ResendOtpOutcome(email) ==
    IF ByEmail(users, email) # {} THEN "registered" ELSE "ok"

\* mutant: the earlier unused codes of the email are kept
resend_otp_KeepOld(email, code) ==
    /\ IF ResendOtpOutcome(email) = "registered"
       THEN /\ resp' = [Resp("resend_otp", 400, "Email already registered")
                        EXCEPT !.email = email]
            /\ UNCHANGED <<otps, nextOtpId>>
       ELSE /\ otps' = cleanup_expired_otps(otps, now)
                          \cup {NewOtp(nextOtpId, email, code, now)}
            /\ nextOtpId' = nextOtpId + 1
            /\ resp' = [Resp("resend_otp", 200, "OTP resent successfully")
                        EXCEPT !.email = email, !.otp_code = code,
                               !.expires_in_minutes = 10]
    /\ UNCHANGED <<now, users, nextUserId, tokens>>

\* mutant: the used records of the email are removed as well
resend_otp_DeleteUsed(email, code) ==
    /\ IF ResendOtpOutcome(email) = "registered"
       THEN /\ resp' = [Resp("resend_otp", 400, "Email already registered")
                        EXCEPT !.email = email]
            /\ UNCHANGED <<otps, nextOtpId>>
       ELSE /\ otps' = {r \in cleanup_expired_otps(otps, now) : r.email # email}
                          \cup {NewOtp(nextOtpId, email, code, now)}
            /\ nextOtpId' = nextOtpId + 1
            /\ resp' = [Resp("resend_otp", 200, "OTP resent successfully")
                        EXCEPT !.email = email, !.otp_code = code,
                               !.expires_in_minutes = 10]
    /\ UNCHANGED <<now, users, nextUserId, tokens>>

\* mutant: the hourly limit of send_otp is applied to the resend as well
resend_otp_RateLimited(email, code) ==
    /\ IF recent_otps(otps, email, now) >= RATE_LIMIT
       THEN /\ resp' = [Resp("resend_otp", 429,
                    "Too many OTP requests. Please wait before requesting another OTP.")
                        EXCEPT !.email = email]
            /\ UNCHANGED <<otps, nextOtpId>>
       ELSE IF ResendOtpOutcome(email) = "registered"
       THEN /\ resp' = [Resp("resend_otp", 400, "Email already registered")
                        EXCEPT !.email = email]
            /\ UNCHANGED <<otps, nextOtpId>>
       ELSE /\ otps' = {r \in cleanup_expired_otps(otps, now) :
                            ~(r.email = email /\ ~r.is_used)}
                          \cup {NewOtp(nextOtpId, email, code, now)}
            /\ nextOtpId' = nextOtpId + 1
            /\ resp' = [Resp("resend_otp", 200, "OTP resent successfully")
                        EXCEPT !.email = email, !.otp_code = code,
                               !.expires_in_minutes = 10]
    /\ UNCHANGED <<now, users, nextUserId, tokens>>

resend_otp(email, code) ==
    /\ IF ResendOtpOutcome(email) = "registered"
       THEN /\ resp' = [Resp("resend_otp", 400, "Email already registered")
                        EXCEPT !.email = email]
            /\ UNCHANGED <<otps, nextOtpId>>
       ELSE /\ otps' = {r \in cleanup_expired_otps(otps, now) :
                            ~(r.email = email /\ ~r.is_used)}
                          \cup {NewOtp(nextOtpId, email, code, now)}
            /\ nextOtpId' = nextOtpId + 1
            /\ resp' = [Resp("resend_otp", 200, "OTP resent successfully")
                        EXCEPT !.email = email, !.otp_code = code,
                               !.expires_in_minutes = 10]
    /\ UNCHANGED <<now, users, nextUserId, tokens>>

(***************************************************************************)
(* POST /auth/login                                                        *)
(***************************************************************************)
\* the user document as the handler holds it after the legacy backfill
LegacyBackfill(user) ==
    IF user.email = NoEmail
       /\ ~DuplicateKey(users, [user EXCEPT !.email = LegacyEmail(user.username)])
    THEN [user EXCEPT !.email = LegacyEmail(user.username), !.is_verified = TRUE]
    ELSE user

\* mutant: the is_verified check is skipped
LoginOutcome_NoVerifiedCheck(username, password) ==
    IF ByUsername(users, username) = {} THEN "unknown_user"
    ELSE LET user == CHOOSE u \in ByUsername(users, username) : TRUE
         IN  IF ~verify_password(password, user.password_hash) THEN "wrong_password"
             ELSE "ok"

LoginOutcome(username, password) ==
    IF ByUsername(users, username) = {} THEN "unknown_user"
    ELSE LET user == CHOOSE u \in ByUsername(users, username) : TRUE
         IN  IF ~verify_password(password, user.password_hash) THEN "wrong_password"
             ELSE IF ~LegacyBackfill(user).is_verified THEN "not_verified"
             ELSE "ok"

\* mutant: an unknown username gets an answer of its own
LoginResponse_Enumerates(username, password) ==
    CASE LoginOutcome(username, password) = "unknown_user" ->
             Resp("login", 404, "User not found")
      [] LoginOutcome(username, password) = "wrong_password" ->
             Resp("login", 401, "Invalid credentials")
      [] LoginOutcome(username, password) = "not_verified" ->
             Resp("login", 401,
                  "Email not verified. Please verify your email with OTP first.")
      [] OTHER ->
             [Resp("login", 200, "")
              EXCEPT !.token = create_access_token(username, now)]

LoginResponse(username, password) ==
    CASE LoginOutcome(username, password) = "unknown_user" ->
             Resp("login", 401, "Invalid credentials")
      [] LoginOutcome(username, password) = "wrong_password" ->
             Resp("login", 401, "Invalid credentials")
      [] LoginOutcome(username, password) = "not_verified" ->
             Resp("login", 401,
                  "Email not verified. Please verify your email with OTP first.")
      [] OTHER ->
             [Resp("login", 200, "")
              EXCEPT !.token = create_access_token(username, now)]

login(username, password) ==
    /\ resp' = LoginResponse(username, password)
    /\ IF LoginOutcome(username, password) \in {"unknown_user", "wrong_password"}
       THEN UNCHANGED <<users, tokens>>
       ELSE LET user == CHOOSE u \in ByUsername(users, username) : TRUE
            IN  /\ users' = (users \ {user}) \cup {LegacyBackfill(user)}
                /\ tokens' = IF LoginOutcome(username, password) = "ok"
                             THEN tokens \cup {create_access_token(user.username, now)}
                             ELSE tokens
    /\ UNCHANGED <<now, nextUserId, otps, nextOtpId>>

(***************************************************************************)
(* Bearer authentication: get_current_user and get_current_admin           *)
(***************************************************************************)
AuthOutcome(tok) ==
    IF tok = NoToken THEN "missing"
    ELSE IF TokenExpired(tok, now) THEN "expired"
    ELSE IF ByUsername(users, tok.sub) = {} THEN "not_found"
    ELSE "ok"

get_current_user(tok) == CHOOSE u \in ByUsername(users, tok.sub) : TRUE

AdminOutcome(tok) ==
    IF AuthOutcome(tok) # "ok" THEN AuthOutcome(tok)
    ELSE IF ~get_current_user(tok).is_admin THEN "forbidden"
    ELSE "ok"

AuthError(op, outcome) ==
    CASE outcome = "missing"   -> Resp(op, 401, "Missing bearer token")
      [] outcome = "expired"   -> Resp(op, 401, "Token expired")
      [] outcome = "not_found" -> Resp(op, 401, "User not found")
      [] OTHER                 -> Resp(op, 403, "Admin access required")

(***************************************************************************)
(* POST /auth/refresh                                                      *)
(***************************************************************************)
refresh_token(tok) ==
    /\ IF AuthOutcome(tok) # "ok"
       THEN /\ resp' = AuthError("refresh_token", AuthOutcome(tok))
            /\ UNCHANGED tokens
       ELSE LET new_token == create_access_token(get_current_user(tok).username, now)
            IN  /\ tokens' = tokens \cup {new_token}
                /\ resp' = [Resp("refresh_token", 200, "") EXCEPT !.token = new_token]
    /\ UNCHANGED <<now, users, nextUserId, otps, nextOtpId>>

(***************************************************************************)
(* DELETE /admin/users/{user_id}                                           *)
(***************************************************************************)
\* mutant: the caller's own id is treated like any other
DeleteUserOutcome_NoSelfCheck(current_admin, user_id, admin_confirmation) ==
    IF user_id = InvalidId THEN "invalid_id"
    ELSE IF ById(users, user_id) = {} THEN "not_found"
    ELSE LET user == CHOOSE u \in ById(users, user_id) : TRUE
         IN  IF user.is_admin /\ admin_confirmation # DELETE_ADMIN
             THEN "needs_confirmation"
             ELSE "ok"

\* mutant: the confirmation is compared without regard to case
DeleteUserOutcome_AnyCase(current_admin, user_id, admin_confirmation) ==
    IF user_id = InvalidId THEN "invalid_id"
    ELSE IF ById(users, user_id) = {} THEN "not_found"
    ELSE LET user == CHOOSE u \in ById(users, user_id) : TRUE
         IN  IF user.id = current_admin.id THEN "self"
             ELSE IF user.is_admin
                     /\ admin_confirmation \notin {DELETE_ADMIN, "delete admin"}
                  THEN "needs_confirmation"
             ELSE "ok"

DeleteUserOutcome(current_admin, user_id, admin_confirmation) ==
    IF user_id = InvalidId THEN "invalid_id"
    ELSE IF ById(users, user_id) = {} THEN "not_found"
    ELSE LET user == CHOOSE u \in ById(users, user_id) : TRUE
         IN  IF user.id = current_admin.id THEN "self"
             ELSE IF user.is_admin /\ admin_confirmation # DELETE_ADMIN
                  THEN "needs_confirmation"
             ELSE "ok"

delete_user(tok, user_id, admin_confirmation) ==
    /\ IF AdminOutcome(tok) # "ok"
       THEN /\ resp' = AuthError("delete_user", AdminOutcome(tok))
            /\ UNCHANGED users
       ELSE LET current_admin == get_current_user(tok)
                outcome == DeleteUserOutcome(current_admin, user_id, admin_confirmation)
                R(status, detail) == Resp("delete_user", status, detail)
            IN  CASE outcome = "invalid_id" ->
                       resp' = R(400, "Invalid user ID format") /\ UNCHANGED users
                  [] outcome = "not_found" ->
                       resp' = R(404, "User not found") /\ UNCHANGED users
                  [] outcome = "self" ->
                       resp' = R(400, "Cannot delete your own account") /\ UNCHANGED users
                  [] outcome = "needs_confirmation" ->
                       resp' = R(400, "To delete an admin user, you must provide confirmation: 'DELETE ADMIN'")
                       /\ UNCHANGED users
                  [] OTHER ->
                       /\ users' = users \ ById(users, user_id)
                       /\ resp' = R(200, "deleted successfully")
    /\ UNCHANGED <<now, nextUserId, otps, nextOtpId, tokens>>

(***************************************************************************)
(* PUT /admin/users/{user_id}/toggle-admin                                 *)
(***************************************************************************)
ToggleAdminOutcome(current_admin, user_id) ==
    IF user_id = InvalidId THEN "invalid_id"
    ELSE IF ById(users, user_id) = {} THEN "not_found"
    ELSE IF user_id = current_admin.id THEN "self"
    ELSE "ok"

toggle_admin_status(tok, user_id) ==
    /\ IF AdminOutcome(tok) # "ok"
       THEN /\ resp' = AuthError("toggle_admin_status", AdminOutcome(tok))
            /\ UNCHANGED users
       ELSE LET current_admin == get_current_user(tok)
                outcome == ToggleAdminOutcome(current_admin, user_id)
                R(status, detail) == Resp("toggle_admin_status", status, detail)
            IN  CASE outcome = "invalid_id" ->
                       resp' = R(400, "Invalid user ID format") /\ UNCHANGED users
                  [] outcome = "not_found" ->
                       resp' = R(404, "User not found") /\ UNCHANGED users
                  [] outcome = "self" ->
                       resp' = R(400, "Cannot modify your own admin status")
                       /\ UNCHANGED users
                  [] OTHER ->
                       LET user == CHOOSE u \in ById(users, user_id) : TRUE
                       IN  /\ users' = (users \ {user})
                                 \cup {[user EXCEPT !.is_admin = ~user.is_admin]}
                           /\ resp' = R(200, "admin status changed")
    /\ UNCHANGED <<now, nextUserId, otps, nextOtpId, tokens>>

(***************************************************************************)
(* POST /admin/users/bulk-delete                                           *)
(***************************************************************************)
\* mutant: other admins are deleted like any user
BulkReason_NoAdminCheck(U, current_admin, user_id) ==
    IF user_id = InvalidId THEN "Invalid user ID format"
    ELSE IF ById(U, user_id) = {} THEN "User not found"
    ELSE IF user_id = current_admin.id THEN "Cannot delete your own account"
    ELSE "ok"

BulkReason(U, current_admin, user_id) ==
    IF user_id = InvalidId THEN "Invalid user ID format"
    ELSE IF ById(U, user_id) = {} THEN "User not found"
    ELSE IF user_id = current_admin.id THEN "Cannot delete your own account"
    ELSE IF (CHOOSE u \in ById(U, user_id) : TRUE).is_admin
         THEN "Cannot delete other admin users"
    ELSE "ok"

\* the loop over user_ids: [users, deleted, failed] after the ids left
RECURSIVE BulkLoop(_, _, _)
BulkLoop(user_ids, current_admin, acc) ==
    IF user_ids = <<>> THEN acc
    ELSE LET user_id == Head(user_ids)
             reason == BulkReason(acc.users, current_admin, user_id)
         IN  BulkLoop(Tail(user_ids), current_admin,
                 IF reason = "ok"
                 THEN [acc EXCEPT !.users = acc.users \ ById(acc.users, user_id),
                                  !.deleted = Append(acc.deleted, user_id)]
                 ELSE [acc EXCEPT !.failed = Append(acc.failed,
                                      [id |-> user_id, reason |-> reason])])

bulk_delete_users(tok, user_ids) ==
    /\ IF AdminOutcome(tok) # "ok"
       THEN /\ resp' = AuthError("bulk_delete_users", AdminOutcome(tok))
            /\ UNCHANGED users
       ELSE LET current_admin == get_current_user(tok)
            IN  IF user_ids = <<>>
                THEN \* the HTTPException(400) is caught by `except Exception`
                     /\ resp' = Resp("bulk_delete_users", 500,
                                     "Error in bulk delete operation")
                     /\ UNCHANGED users
                ELSE LET out == BulkLoop(user_ids, current_admin,
                                   [users |-> users, deleted |-> <<>>, failed |-> <<>>])
                     IN  /\ users' = out.users
                         /\ resp' = [Resp("bulk_delete_users", 200, "Bulk delete completed.")
                                     EXCEPT !.deleted = out.deleted,
                                            !.failed = out.failed]
    /\ UNCHANGED <<now, nextUserId, otps, nextOtpId, tokens>>

(***************************************************************************)
(* POST /admin/users/create                                                *)
(***************************************************************************)
CreateUserOutcome(username, email) ==
    IF ByUsername(users, username) # {} THEN "username_taken"
    ELSE IF ByEmail(users, email) # {} THEN "email_taken"
    ELSE "ok"

create_user(tok, username, email, password, is_admin) ==
    /\ IF AdminOutcome(tok) # "ok"
       THEN /\ resp' = AuthError("create_user", AdminOutcome(tok))
            /\ UNCHANGED <<users, nextUserId>>
       ELSE LET current_admin == get_current_user(tok)
                R(status, detail) == [Resp("create_user", status, detail)
                                      EXCEPT !.email = email]
            IN  CASE CreateUserOutcome(username, email) = "username_taken" ->
                       resp' = R(400, "Username already exists")
                       /\ UNCHANGED <<users, nextUserId>>
                  [] CreateUserOutcome(username, email) = "email_taken" ->
                       resp' = R(400, "Email already registered")
                       /\ UNCHANGED <<users, nextUserId>>
                  [] OTHER ->
                       /\ users' = users \cup {NewUser(nextUserId, username, email,
                                                       password, is_admin, "admin")}
                       /\ nextUserId' = nextUserId + 1
                       /\ resp' = R(200, "created successfully")
    /\ UNCHANGED <<now, otps, nextOtpId, tokens>>

(***************************************************************************)
(* The handlers await by await.  Every database call is a suspension point *)
(* at which another task may run; a task keeps what it has read so far in  *)
(* `calls`.                                                                *)
(***************************************************************************)
Return(p, r) == resp' = r /\ calls' = [calls EXCEPT ![p] = Idle]

Goto(p, c) == calls' = [calls EXCEPT ![p] = c] /\ UNCHANGED resp

At(p, op, pc) == calls[p].op = op /\ calls[p].pc = pc

\* register: find_one(username), find_one(email), find_one(used otp),
\* insert_one(user), delete_one(otp)
register_find_username(p, username, email, password) ==
    /\ calls[p] = Idle
    /\ IF ByUsername(users, username) # {}
       THEN Return(p, [Resp("register", 400, "Username already exists")
                       EXCEPT !.email = email])
       ELSE Goto(p, [op |-> "register", pc |-> "find_email", username |-> username,
                     email |-> email, password |-> password, otp_id |-> 0])
    /\ UNCHANGED <<now, store>>

register_find_email(p) ==
    /\ At(p, "register", "find_email")
    /\ IF ByEmail(users, calls[p].email) # {}
       THEN Return(p, [Resp("register", 400, "Email already registered")
                       EXCEPT !.email = calls[p].email])
       ELSE Goto(p, [calls[p] EXCEPT !.pc = "find_otp"])
    /\ UNCHANGED <<now, store>>

register_find_otp(p) ==
    /\ At(p, "register", "find_otp")
    /\ IF VerifiedOtps(calls[p].email) = {}
       THEN Return(p, [Resp("register", 400,
                            "Email not verified. Please verify your email with OTP first.")
                       EXCEPT !.email = calls[p].email])
       ELSE \E verified_otp \in VerifiedOtps(calls[p].email) :
               Goto(p, [calls[p] EXCEPT !.pc = "insert", !.otp_id = verified_otp.id])
    /\ UNCHANGED <<now, store>>

\* insert_one under the unique indexes: DuplicateKeyError or the new document
InsertUser(doc) == IF DuplicateKey(users, doc) THEN users ELSE users \cup {doc}

register_insert(p) ==
    /\ At(p, "register", "insert")
    /\ LET user_doc == NewUser(nextUserId, calls[p].username, calls[p].email,
                               calls[p].password, FALSE, "register")
       IN  /\ users' = InsertUser(user_doc)
           /\ IF DuplicateKey(users, user_doc)
              THEN /\ Return(p, [Resp("register", 400, "Username or email already exists")
                                 EXCEPT !.email = calls[p].email])
                   /\ UNCHANGED nextUserId
              ELSE /\ Goto(p, [calls[p] EXCEPT !.pc = "delete_otp"])
                   /\ nextUserId' = nextUserId + 1
    /\ UNCHANGED <<now, otps, nextOtpId, tokens>>

register_delete_otp(p) ==
    /\ At(p, "register", "delete_otp")
    /\ otps' = {r \in otps : r.id # calls[p].otp_id}
    /\ Return(p, [Resp("register", 200, "User registered successfully")
                  EXCEPT !.email = calls[p].email])
    /\ UNCHANGED <<now, users, nextUserId, nextOtpId, tokens>>

\* verify_otp: find_one(unused record), then the expiry check and
\* update_one(is_used) by _id
verify_otp_find(p, email, code) ==
    /\ calls[p] = Idle
    /\ IF VerifyMatches(email, code) = {}
       THEN Return(p, [Resp("verify_otp", 400, "Invalid OTP") EXCEPT !.email = email])
       ELSE \E otp_record \in VerifyMatches(email, code) :
               Goto(p, [op |-> "verify_otp", pc |-> "update", email |-> email,
                        otp_id |-> otp_record.id,
                        expires_at |-> otp_record.expires_at])
    /\ UNCHANGED <<now, store>>

verify_otp_update(p) ==
    /\ At(p, "verify_otp", "update")
    /\ IF is_otp_expired(calls[p].expires_at, now)
       THEN /\ Return(p, [Resp("verify_otp", 400, "OTP has expired")
                          EXCEPT !.email = calls[p].email])
            /\ UNCHANGED otps
       ELSE /\ otps' = {IF r.id = calls[p].otp_id THEN [r EXCEPT !.is_used = TRUE]
                        ELSE r : r \in otps}
            /\ Return(p, [Resp("verify_otp", 200, "OTP verified successfully")
                          EXCEPT !.email = calls[p].email])
    /\ UNCHANGED <<now, users, nextUserId, nextOtpId, tokens>>

\* create_user: get_current_admin (find_one), find_one(username),
\* find_one(email), insert_one(user)
create_user_authenticate(p, tok, username, email, password, is_admin) ==
    /\ calls[p] = Idle
    /\ IF AdminOutcome(tok) # "ok"
       THEN Return(p, AuthError("create_user", AdminOutcome(tok)))
       ELSE Goto(p, [op |-> "create_user", pc |-> "find_username",
                     username |-> username, email |-> email,
                     password |-> password, is_admin |-> is_admin])
    /\ UNCHANGED <<now, store>>

create_user_find_username(p) ==
    /\ At(p, "create_user", "find_username")
    /\ IF ByUsername(users, calls[p].username) # {}
       THEN Return(p, [Resp("create_user", 400, "Username already exists")
                       EXCEPT !.email = calls[p].email])
       ELSE Goto(p, [calls[p] EXCEPT !.pc = "find_email"])
    /\ UNCHANGED <<now, store>>

create_user_find_email(p) ==
    /\ At(p, "create_user", "find_email")
    /\ IF ByEmail(users, calls[p].email) # {}
       THEN Return(p, [Resp("create_user", 400, "Email already registered")
                       EXCEPT !.email = calls[p].email])
       ELSE Goto(p, [calls[p] EXCEPT !.pc = "insert"])
    /\ UNCHANGED <<now, store>>

create_user_insert(p) ==
    /\ At(p, "create_user", "insert")
    /\ LET user_doc == NewUser(nextUserId, calls[p].username, calls[p].email,
                               calls[p].password, calls[p].is_admin, "admin")
       IN  /\ users' = InsertUser(user_doc)
           /\ IF DuplicateKey(users, user_doc)
              THEN /\ Return(p, [Resp("create_user", 400,
                                      "Username or email already exists")
                                 EXCEPT !.email = calls[p].email])
                   /\ UNCHANGED nextUserId
              ELSE /\ Return(p, [Resp("create_user", 200, "created successfully")
                                 EXCEPT !.email = calls[p].email])
                   /\ nextUserId' = nextUserId + 1
    /\ UNCHANGED <<now, otps, nextOtpId, tokens>>

(***************************************************************************)
(* History variables: each specification records, from the response of the *)
(* request just served, the history its properties are stated over.        *)
(***************************************************************************)
Ok(op) == resp'.op = op /\ resp'.status = 200

ObserveFlow ==
    /\ verifiedLog' = IF Ok("verify_otp") THEN verifiedLog \cup {resp'.email}
                      ELSE verifiedLog
    /\ registeredLog' = IF Ok("register") THEN registeredLog \cup {resp'.email}
                        ELSE registeredLog
    /\ UNCHANGED <<rateLogs, calls>>

ObserveRate ==
    /\ sendLog' = IF Ok("send_otp")
                  THEN Append(sendLog, [email |-> resp'.email, time |-> now])
                  ELSE sendLog
    /\ limitedAt' = IF resp'.op = "send_otp" /\ resp'.status = 429
                       /\ limitedAt[resp'.email] = -1
                    THEN [limitedAt EXCEPT ![resp'.email] = now]
                    ELSE limitedAt
    /\ resentLog' = IF Ok("resend_otp") THEN resentLog \cup {resp'.email}
                    ELSE resentLog
    /\ UNCHANGED <<flowLogs, calls>>

(***************************************************************************)
(* Spec: the registration flow (send, resend, verify, register), the       *)
(* clock and restarts of the process.                                      *)
(***************************************************************************)
UserIds == 0..MaxUserIds
NewUserIds == 4..MaxUserIds
Bearers == tokens \cup {NoToken}

Next ==
    \/ \E d \in TickSteps : Tick(d, MaxTime) /\ UNCHANGED <<logs, calls>>
    \/ startup_event /\ UNCHANGED <<logs, calls>>
    \/ \E e \in Emails, c \in Codes, s \in BOOLEAN :
          /\ SendOtpOutcome(e) = "ok" => nextOtpId <= MaxOtps
          /\ send_otp(e, c, s) /\ ObserveFlow
    \/ \E e \in Emails, c \in Codes : verify_otp(e, c) /\ ObserveFlow
    \/ \E u \in RegisterUsernames, e \in Emails :
          /\ RegisterOutcome(u, e) = "ok" => nextUserId <= MaxUserIds
          /\ register(u, e, "pw") /\ ObserveFlow
    \/ \E e \in Emails, c \in Codes :
          /\ ResendOtpOutcome(e) = "ok" => nextOtpId <= MaxOtps
          /\ resend_otp(e, c) /\ ObserveFlow

Spec == Init /\ [][Next]_vars

(***************************************************************************)
(* SpecLifecycle: an account from its first OTP to its deletion by an      *)
(* administrator, and what registration does afterwards.                   *)
(***************************************************************************)
NextLifecycle ==
    \/ \E d \in TickSteps : Tick(d, MaxTime) /\ UNCHANGED <<logs, calls>>
    \/ startup_event /\ UNCHANGED <<logs, calls>>
    \/ \E e \in Emails :
          /\ SendOtpOutcome(e) = "ok" => nextOtpId <= MaxOtps
          /\ send_otp(e, "123456", FALSE) /\ ObserveFlow
    \/ \E e \in Emails, c \in Codes : verify_otp(e, c) /\ ObserveFlow
    \/ \E u \in NewUsernames, e \in Emails :
          /\ RegisterOutcome(u, e) = "ok" => nextUserId <= MaxUserIds
          /\ register(u, e, "pw") /\ ObserveFlow
    \/ tokens = {} /\ login("root", "pw") /\ UNCHANGED <<logs, calls>>
    \/ \E tok \in tokens, id \in NewUserIds :
          delete_user(tok, id, "") /\ UNCHANGED <<logs, calls>>

SpecLifecycle == Init /\ [][NextLifecycle]_vars

(***************************************************************************)
(* SpecRate: one email asking for codes over more than an hour.            *)
(***************************************************************************)
NextRate ==
    \/ \E d \in RateTickSteps : Tick(d, MaxRateTime) /\ UNCHANGED <<logs, calls>>
    \/ startup_event /\ UNCHANGED <<logs, calls>>
    \/ /\ SendOtpOutcome("a@x.io") = "ok" => nextOtpId <= MaxRateOtps
       /\ send_otp("a@x.io", "123456", FALSE) /\ ObserveRate
    \/ verify_otp("a@x.io", "123456") /\ ObserveRate
    \/ /\ RegisterOutcome("alice", "a@x.io") = "ok" => nextUserId <= MaxUserIds
       /\ register("alice", "a@x.io", "pw") /\ ObserveRate
    \/ /\ ResendOtpOutcome("a@x.io") = "ok" => nextOtpId <= MaxRateOtps
       /\ resend_otp("a@x.io", "123456") /\ ObserveRate

SpecRate == Init /\ [][NextRate]_vars

(***************************************************************************)
(* SpecAdmin: login and the administrator routes over the user store.      *)
(***************************************************************************)
IdLists == {<<>>} \cup {<<i>> : i \in UserIds}
              \cup {<<i, j>> : i \in UserIds, j \in UserIds}

LoginNames == {"root", "old", "pend", "alice", "nobody"}

NextAdmin ==
    \/ \E u \in LoginNames, p \in Passwords :
          /\ LoginOutcome(u, p) = "ok" =>
                 Cardinality(tokens \cup {create_access_token(u, now)}) <= MaxTokens
          /\ login(u, p) /\ UNCHANGED <<logs, calls>>
    \/ \E tok \in Bearers, id \in UserIds, conf \in Confirmations :
          delete_user(tok, id, conf) /\ UNCHANGED <<logs, calls>>
    \/ \E tok \in Bearers, id \in UserIds :
          toggle_admin_status(tok, id) /\ UNCHANGED <<logs, calls>>
    \/ \E tok \in Bearers, ids \in IdLists :
          bulk_delete_users(tok, ids) /\ UNCHANGED <<logs, calls>>
    \/ \E tok \in Bearers, u \in NewUsernames, e \in Emails, a \in BOOLEAN :
          /\ (AdminOutcome(tok) = "ok" /\ CreateUserOutcome(u, e) = "ok")
                 => nextUserId <= MaxUserIds
          /\ create_user(tok, u, e, "pw", a) /\ UNCHANGED <<logs, calls>>

SpecAdmin == Init /\ [][NextAdmin]_vars

(***************************************************************************)
(* SpecRace: register and create_user served by two tasks whose database   *)
(* calls interleave, after emails were verified and an admin logged in.    *)
(***************************************************************************)
InsertAllowed(p) ==
    DuplicateKey(users, NewUser(nextUserId, calls[p].username, calls[p].email,
                                calls[p].password, FALSE, ""))
    \/ nextUserId <= MaxRaceUserIds

NoneInFlight == \A p \in Tasks : calls[p] = Idle

NextRace ==
    \/ \E e \in Emails :
          /\ NoneInFlight
          /\ SendOtpOutcome(e) = "ok" => nextOtpId <= MaxOtps
          /\ send_otp(e, "123456", FALSE) /\ UNCHANGED <<logs, calls>>
    \/ \E e \in Emails :
          NoneInFlight /\ verify_otp(e, "123456") /\ UNCHANGED <<logs, calls>>
    \/ NoneInFlight /\ tokens = {} /\ login("root", "pw") /\ UNCHANGED <<logs, calls>>
    \/ \E p \in Tasks, u \in RaceUsernames, e \in Emails :
          register_find_username(p, u, e, "pw") /\ UNCHANGED logs
    \/ \E p \in Tasks : register_find_email(p) /\ UNCHANGED logs
    \/ \E p \in Tasks : register_find_otp(p) /\ UNCHANGED logs
    \/ \E p \in Tasks : register_insert(p) /\ InsertAllowed(p) /\ UNCHANGED logs
    \/ \E p \in Tasks : register_delete_otp(p) /\ UNCHANGED logs
    \/ \E p \in Tasks, tok \in tokens, e \in Emails :
          create_user_authenticate(p, tok, "alice", e, "pw", FALSE) /\ UNCHANGED logs
    \/ \E p \in Tasks : create_user_find_username(p) /\ UNCHANGED logs
    \/ \E p \in Tasks : create_user_find_email(p) /\ UNCHANGED logs
    \/ \E p \in Tasks : create_user_insert(p) /\ InsertAllowed(p) /\ UNCHANGED logs

SpecRace == Init /\ [][NextRace]_vars

(***************************************************************************)
(* SpecSession: tokens of an administrator and of another user over more   *)
(* than an hour, while the user is deleted and a user of the same name is  *)
(* created again.                                                          *)
(***************************************************************************)
SessionNames == {"root", "old"}

TokenAllowed(tok) == Cardinality(tokens \cup {tok}) <= MaxSessionTokens

NextSession ==
    \/ \E d \in RateTickSteps : Tick(d, MaxRateTime) /\ UNCHANGED <<logs, calls>>
    \/ \E u \in SessionNames :
          /\ LoginOutcome(u, "pw") = "ok" => TokenAllowed(create_access_token(u, now))
          /\ login(u, "pw") /\ UNCHANGED <<logs, calls>>
    \/ \E tok \in Bearers :
          /\ AuthOutcome(tok) = "ok" => TokenAllowed(create_access_token(tok.sub, now))
          /\ refresh_token(tok) /\ UNCHANGED <<logs, calls>>
    \/ \E tok \in Bearers, id \in 2..MaxUserIds :
          delete_user(tok, id, "") /\ UNCHANGED <<logs, calls>>
    \/ \E tok \in Bearers, id \in 2..MaxUserIds :
          toggle_admin_status(tok, id) /\ UNCHANGED <<logs, calls>>
    \/ \E tok \in Bearers :
          /\ (AdminOutcome(tok) = "ok" /\ CreateUserOutcome("old", "a@x.io") = "ok")
                 => nextUserId <= MaxUserIds
          /\ create_user(tok, "old", "a@x.io", "pw", FALSE) /\ UNCHANGED <<logs, calls>>

SpecSession == Init /\ [][NextSession]_vars

(***************************************************************************)
(* SpecVerifyRace: verify_otp served by two tasks whose database calls     *)
(* interleave.                                                             *)
(***************************************************************************)
NextVerifyRace ==
    \/ \E d \in TickSteps : Tick(d, MaxTime) /\ UNCHANGED <<logs, calls>>
    \/ \E e \in Emails, c \in Codes :
          /\ SendOtpOutcome(e) = "ok" => nextOtpId <= MaxOtps
          /\ send_otp(e, c, FALSE) /\ UNCHANGED <<logs, calls>>
    \/ \E p \in Tasks, e \in Emails, c \in Codes :
          verify_otp_find(p, e, c) /\ UNCHANGED logs
    \/ \E p \in Tasks : verify_otp_update(p) /\ UNCHANGED logs

SpecVerifyRace == Init /\ [][NextVerifyRace]_vars

(***************************************************************************)
(* SpecFault: the registration flow when the document store can fail       *)
(* between the insert of the User and the clean-up of the OTP record.      *)
(***************************************************************************)
NextFault ==
    \/ \E d \in TickSteps : Tick(d, MaxTime) /\ UNCHANGED <<logs, calls>>
    \/ \E e \in Emails, c \in Codes :
          /\ SendOtpOutcome(e) = "ok" => nextOtpId <= MaxOtps
          /\ send_otp(e, c, FALSE) /\ ObserveFlow
    \/ \E e \in Emails, c \in Codes : verify_otp(e, c) /\ ObserveFlow
    \/ \E u \in RegisterUsernames, e \in Emails :
          /\ RegisterOutcome(u, e) = "ok" => nextUserId <= MaxUserIds
          /\ register(u, e, "pw") /\ ObserveFlow
    \/ \E u \in RegisterUsernames, e \in Emails :
          /\ RegisterOutcome(u, e) = "ok" => nextUserId <= MaxUserIds
          /\ register_delete_one_raises(u, e, "pw") /\ ObserveFlow

SpecFault == Init /\ [][NextFault]_vars

(***************************************************************************)
(* C1 (SpecLifecycle).  Original claim: once Request-OTP, Verify-OTP and   *)
(* Complete-Registration have succeeded for an email, every later          *)
(* Complete-Registration with that email fails with a conflict error and   *)
(* creates no User.                                                        *)
(***************************************************************************)
ConflictDetails == {"Username already exists", "Email already registered",
                    "Username or email already exists"}

IsConflict(r) == r.status = 400 /\ r.detail \in ConflictDetails

\* register(u, e) served right after a successful verify_otp for e, with the
\* username and the email free: it succeeds and adds exactly one User
RegisterAfterVerify(u, e) ==
    (/\ resp.op = "verify_otp" /\ resp.status = 200 /\ resp.email = e
     /\ ByUsername(users, u) = {} /\ ByEmail(users, e) = {})
    => /\ resp'.status = 200
       /\ Cardinality(users' \ users) = 1 /\ users \subseteq users'
       /\ \A n \in users' \ users :
             n.username = u /\ n.email = e /\ n.via = "register"

C2_RegisteredOnlyIfVerified ==
    \A u \in users : u.via = "register" => u.email \in verifiedLog

C2_Witness ==
    \E u \in users : u.via = "register" /\ u.email \in verifiedLog

(***************************************************************************)
(* C3 (Spec).  verify_otp with a code that matches no unused record of the *)
(* email answers 400 "Invalid OTP" and leaves every OTP record (and every  *)
(* User) as it was, so what any code verifies to afterwards is unchanged.   *)
(***************************************************************************)
C3_WrongCodeChangesNothing ==
    [][\A e \in Emails, c \in Codes :
          (verify_otp(e, c) /\ VerifyMatches(e, c) = {}) =>
             /\ resp'.status = 400 /\ resp'.detail = "Invalid OTP"
             /\ otps' = otps /\ users' = users
             /\ \A c2 \in Codes :
                   VerifyOutcomes(otps', now', e, c2) = VerifyOutcomes(otps, now, e, c2)]_vars

\* a wrong code was just refused while a correct code is outstanding
C3_Witness ==
    /\ resp.op = "verify_otp" /\ resp.detail = "Invalid OTP"
    /\ \E c \in Codes : VerifyOutcomes(otps, now, resp.email, c) = {"ok"}

(***************************************************************************)
(* C4 (Spec).  The claim: verify_otp never succeeds on a record when the   *)
(* current time is at or after the record's expires_at.                    *)
(***************************************************************************)
C4_NeverVerifiesAtOrAfterExpiry ==
    [][\A e \in Emails, c \in Codes :
          (verify_otp(e, c) /\ resp'.status = 200) =>
             \A r \in otps \ otps' : now < r.expires_at]_vars

(***************************************************************************)
(* C5 (SpecRate).  The claim: for every email, at most 5 send_otp calls    *)
(* succeed within any trailing 60-minute window, whatever sweeps,          *)
(* verifications or registration attempts happen in between.               *)
(***************************************************************************)
SendsOf(e) == {i \in DOMAIN sendLog : sendLog[i].email = e}

C5_AtMostFivePerHour ==
    \A i \in DOMAIN sendLog :
        Cardinality({j \in SendsOf(sendLog[i].email) :
                        /\ j <= i
                        /\ sendLog[j].time > sendLog[i].time - RATE_WINDOW_MINUTES})
            <= RATE_LIMIT

(***************************************************************************)
(* C6 (SpecRate).  After five successful send_otp calls and a rate-limited *)
(* one for the same unregistered email, all inside one hour of the first,  *)
(* a send_otp made one hour and one minute (or more) after the first call  *)
(* succeeds and creates a new record.                                      *)
(***************************************************************************)
FirstSend(e) == sendLog[CHOOSE i \in SendsOf(e) : \A j \in SendsOf(e) : i <= j].time

FiveThenLimited(e) ==
    /\ Cardinality(SendsOf(e)) = RATE_LIMIT
    /\ \A i \in SendsOf(e) : sendLog[i].time < FirstSend(e) + RATE_WINDOW_MINUTES
    /\ limitedAt[e] # -1
    /\ limitedAt[e] < FirstSend(e) + RATE_WINDOW_MINUTES
    /\ e \notin resentLog
    /\ ByEmail(users, e) = {}

UnusedOf(e) == {r \in otps : r.email = e /\ ~r.is_used}

C7_Original ==
    [][\A e \in Emails, c \in Codes :
          (resend_otp(e, c) /\ resp'.status = 200) =>
             /\ \A r \in UnusedOf(e) :
                   VerifyOutcomes(otps', now', e, r.otp_code) = {"invalid"}
             /\ VerifyOutcomes(otps', now', e, c) = {"ok"}]_vars

\* C7, amended: after resend_otp(email) returns, verify_otp fails for every
\* code that was issued for the email before the resend, was still unused and
\* differs from the newly returned code, and verify_otp with the newly
\* returned code succeeds; no record issued before the resend can be verified.
C7_OnlyNewestRecordVerifies ==
    [][\A e \in Emails, c \in Codes :
          (resend_otp(e, c) /\ resp'.status = 200) =>
             /\ \A r \in UnusedOf(e) :
                   /\ r \notin otps'
                   /\ r.otp_code # c =>
                         VerifyOutcomes(otps', now', e, r.otp_code) = {"invalid"}
             /\ VerifyOutcomes(otps', now', e, c) = {"ok"}
             /\ \A r \in MatchesIn(otps', e, c) : r \notin otps]_vars

\* a resend that removed an earlier unused record: two records were issued,
\* none was verified or swept, and only the resent one is stored
C7_Witness ==
    /\ resp.op = "resend_otp" /\ resp.status = 200
    /\ now = 0 /\ verifiedLog = {} /\ nextOtpId = 3
    /\ \E r \in otps : otps = {r} /\ r.id = 2 /\ r.email = resp.email
                          /\ r.otp_code = resp.otp_code

(***************************************************************************)
(* C8 (SpecAdmin).  In every state of the user store, login answers an     *)
(* unknown username and a known username with a wrong password with the    *)
(* same response, and neither request changes the store.                   *)
(***************************************************************************)
C8_NoEnumeration ==
    \A u1 \in LoginNames, u2 \in LoginNames, p1 \in Passwords, p2 \in Passwords :
        (/\ LoginOutcome(u1, p1) = "unknown_user"
         /\ LoginOutcome(u2, p2) = "wrong_password")
        => LoginResponse(u1, p1) = LoginResponse(u2, p2)

\* a refused login in a state where both cases exist
C8_Witness ==
    /\ resp.op = "login" /\ resp.status = 401
    /\ LoginOutcome("nobody", "pw") = "unknown_user"
    /\ LoginOutcome("root", "bad") = "wrong_password"
    /\ resp = LoginResponse("nobody", "pw")
    /\ resp = LoginResponse("root", "bad")

(***************************************************************************)
(* C9 (SpecAdmin).  Original claim: login issues a token only for users    *)
(* whose stored is_verified flag is true.                                  *)
(***************************************************************************)
IssuesToken == resp'.status = 200 \/ tokens' # tokens

C9_Original ==
    [][\A u \in LoginNames, p \in Passwords :
          (login(u, p) /\ IssuesToken) =>
             \A user \in ByUsername(users, u) : user.is_verified]_vars

\* C9, amended: login issues a token only for a user whose stored
\* is_verified flag is true or who has no email (a legacy account, which
\* login first gives a placeholder email and is_verified = true); a user
\* with an email and is_verified = false never obtains a token, even with
\* the correct password.  After a login that issued a token the stored flag
\* is true.
C9_TokenOnlyIfVerifiedOrLegacy ==
    [][\A u \in LoginNames, p \in Passwords :
          (login(u, p) /\ IssuesToken) =>
             /\ \A user \in ByUsername(users, u) :
                   user.is_verified \/ user.email = NoEmail
             /\ \A user \in ByUsername(users', u) : user.is_verified]_vars

\* the correct password of an unverified user with an email was refused
C9_Witness ==
    /\ resp.op = "login" /\ resp.status = 401
    /\ resp.detail = "Email not verified. Please verify your email with OTP first."
    /\ LoginOutcome("pend", "pw") = "not_verified"
    /\ \E user \in ByUsername(users, "pend") :
          ~user.is_verified /\ user.email # NoEmail
    /\ tokens = {}

(***************************************************************************)
(* C10 (SpecAdmin).  No administrator route removes or demotes the caller: *)
(* delete_user, toggle_admin_status and bulk_delete_users aimed at the     *)
(* caller's own id fail for that id and leave the caller's User record,    *)
(* is_admin included, as it was.                                           *)
(***************************************************************************)
BulkRefusesSelf(ids, self_id) ==
    \A k \in DOMAIN ids :
        ids[k] = self_id =>
           /\ \A j \in DOMAIN resp'.deleted : resp'.deleted[j] # self_id
           /\ \E j \in DOMAIN resp'.failed :
                 resp'.failed[j] = [id |-> self_id,
                                    reason |-> "Cannot delete your own account"]

C10_CallerIsNeverRemovedOrDemoted ==
    [][\A tok \in Bearers :
          AdminOutcome(tok) = "ok" =>
             LET caller == get_current_user(tok)
             IN  /\ \A id \in UserIds, conf \in Confirmations :
                       (resp'.op = "delete_user" /\ delete_user(tok, id, conf))
                       => /\ caller \in users'
                          /\ id = caller.id =>
                                /\ resp'.status = 400
                                /\ resp'.detail = "Cannot delete your own account"
                                /\ users' = users
                 /\ \A id \in UserIds :
                       (resp'.op = "toggle_admin_status"
                          /\ toggle_admin_status(tok, id))
                       => /\ caller \in users'
                          /\ id = caller.id =>
                                /\ resp'.status = 400
                                /\ resp'.detail = "Cannot modify your own admin status"
                                /\ users' = users
                 /\ \A ids \in IdLists :
                       (/\ resp'.op = "bulk_delete_users"
                        /\ Len(ids) = Len(resp'.deleted) + Len(resp'.failed)
                        /\ bulk_delete_users(tok, ids))
                       => /\ caller \in users'
                          /\ BulkRefusesSelf(ids, caller.id)]_vars

\* the caller named its own id among others in a bulk delete: the other
\* account was deleted, the caller's was refused
C10_Witness ==
    /\ resp.op = "bulk_delete_users" /\ resp.status = 200
    /\ resp.deleted # <<>>
    /\ \E j \in DOMAIN resp.failed :
          /\ resp.failed[j].reason = "Cannot delete your own account"
          /\ \E u \in users : u.id = resp.failed[j].id /\ u.is_admin

(***************************************************************************)
(* C11 (SpecAdmin).  delete_user aimed at another user who is an admin     *)
(* fails and leaves the user stored unless the confirmation is exactly     *)
(* "DELETE ADMIN", and with that string removes the user; a user who is    *)
(* not an admin is removed whatever the confirmation.                      *)
(***************************************************************************)
NeedsConfirmation ==
    "To delete an admin user, you must provide confirmation: 'DELETE ADMIN'"

C11_AdminDeletionNeedsExactConfirmation ==
    [][\A tok \in Bearers :
          AdminOutcome(tok) = "ok" =>
             \A target \in users \ {get_current_user(tok)}, conf \in Confirmations :
                (resp'.op = "delete_user" /\ delete_user(tok, target.id, conf))
                => IF target.is_admin /\ conf # "DELETE ADMIN"
                   THEN /\ resp'.status = 400 /\ resp'.detail = NeedsConfirmation
                        /\ users' = users
                   ELSE /\ resp'.status = 200
                        /\ users' = users \ {target}]_vars

\* a deletion of another admin was refused for its confirmation
C11_Witness ==
    /\ resp.op = "delete_user" /\ resp.detail = NeedsConfirmation
    /\ \E tok \in tokens :
          /\ AdminOutcome(tok) = "ok"
          /\ \E u \in users : u.is_admin /\ u # get_current_user(tok)

(***************************************************************************)
(* C12 (SpecRace).  In every reachable state no two User records share a   *)
(* username or an email, also when register and create_user calls for the  *)
(* same username or email interleave between their existence checks and    *)
(* their inserts: an insert that meets a stored User with its username or  *)
(* email answers 400 "Username or email already exists" and creates no     *)
(* User.                                                                   *)
(***************************************************************************)
UsersUnique ==
    \A u1 \in users, u2 \in users :
        u1 # u2 => u1.username # u2.username /\ u1.email # u2.email

Inserting(p) == register_insert(p) \/ create_user_insert(p)

LostRace(p) ==
    \E u \in users : u.username = calls[p].username \/ u.email = calls[p].email

C12_UniqueUnderInterleaving ==
    /\ []UsersUnique
    /\ [][\A p \in Tasks :
             (calls[p] # Idle /\ calls[p].pc = "insert" /\ Inserting(p)) =>
                IF LostRace(p)
                THEN /\ resp'.status = 400
                     /\ resp'.detail = "Username or email already exists"
                     /\ users' = users
                ELSE Cardinality(users' \ users) = 1 /\ users \subseteq users']_vars

\* a register that passed its checks lost the insert to the other task
C12_Witness ==
    /\ resp.op = "register"
    /\ resp.detail = "Username or email already exists"
    /\ UsersUnique
    /\ \E u \in users : u.id >= 4 /\ u.email = resp.email

(***************************************************************************)
(* C13 (Spec).  register reports the first failing precondition in the     *)
(* order username taken, email taken, email not verified: a taken username *)
(* answers "Username already exists" whatever the email and the OTP        *)
(* records; a free username with a taken email answers "Email already      *)
(* registered" even without a used OTP record; "Email not verified" is     *)
(* answered only when both are free.  A failing register creates no User   *)
(* and changes no OTP record.                                              *)
(***************************************************************************)
RegisterFails(detail) ==
    /\ resp'.status = 400 /\ resp'.detail = detail
    /\ users' = users /\ otps' = otps

C13_FirstFailingPreconditionWins ==
    [][\A u \in RegisterUsernames, e \in Emails :
          register(u, e, "pw") =>
             /\ (\E x \in users : x.username = u)
                   => RegisterFails("Username already exists")
             /\ ((\A x \in users : x.username # u) /\ (\E x \in users : x.email = e))
                   => RegisterFails("Email already registered")
             /\ (/\ \A x \in users : x.username # u /\ x.email # e
                 /\ \A r \in otps : r.email = e => ~r.is_used)
                   => RegisterFails("Email not verified. Please verify your email with OTP first.")
             /\ resp'.detail = "Email not verified. Please verify your email with OTP first."
                   => \A x \in users : x.username # u /\ x.email # e
             /\ resp'.status # 200 => users' = users /\ otps' = otps]_vars

\* a taken email was reported although no used OTP record of it is stored,
\* and in the same state a taken username is reported for a verified email
C13_Witness ==
    /\ resp.op = "register" /\ resp.detail = "Email already registered"
    /\ \A r \in otps : r.email = resp.email => ~r.is_used
    /\ \E e \in Emails :
          /\ \E r \in otps : r.email = e /\ r.is_used
          /\ RegisterOutcome("root", e) = "username_taken"

(***************************************************************************)
(* C14 (Spec).  A successful register adds exactly one User, with          *)
(* is_verified = true and is_admin = false, removes exactly one OTP record, *)
(* a used record of the email, and leaves every other OTP record and every *)
(* other User unchanged.                                                   *)
(***************************************************************************)
C14_RegisterFrame ==
    [][\A u \in RegisterUsernames, e \in Emails :
          (register(u, e, "pw") /\ resp'.status = 200) =>
             /\ \E n \in users' :
                   /\ n \notin users /\ users' = users \cup {n}
                   /\ n.username = u /\ n.email = e
                   /\ n.password_hash = hash_password("pw")
                   /\ n.is_verified /\ ~n.is_admin
             /\ \E r \in otps :
                   /\ r.email = e /\ r.is_used
                   /\ otps' = otps \ {r}]_vars

\* a register succeeded and left in place another used record of the same
\* email
C14_Witness ==
    /\ resp.op = "register" /\ resp.status = 200
    /\ \E r \in otps : r.email = resp.email /\ r.is_used

(***************************************************************************)
(* C15 (Spec).  A send_otp that is neither rate limited nor for a          *)
(* registered email succeeds whether or not the mail was delivered: the    *)
(* new unused record is stored and verifies, and the response carries the  *)
(* email and expires_in_minutes = 10, with the code exactly when the       *)
(* delivery failed.                                                        *)
(***************************************************************************)
C15_MailFailureIsNotFatal ==
    [][\A e \in Emails, c \in Codes, s \in BOOLEAN :
          (/\ recent_otps(otps, e, now) < 5
           /\ \A u \in users : u.email # e
           /\ send_otp(e, c, s))
          => /\ resp'.status = 200
             /\ resp'.email = e /\ resp'.expires_in_minutes = 10
             /\ resp'.otp_code = (IF s THEN NoCode ELSE c)
             /\ \E r \in otps' \ otps :
                   /\ r.email = e /\ r.otp_code = c /\ ~r.is_used
                   /\ r.expires_at = now + 10
             /\ VerifyOutcomes(otps', now', e, c) = {"ok"}]_vars

\* the delivery failed: the code came back in the response and verifies
C15_Witness ==
    /\ resp.op = "send_otp" /\ resp.status = 200
    /\ resp.otp_code # NoCode /\ resp.expires_in_minutes = 10
    /\ VerifyOutcomes(otps, now, resp.email, resp.otp_code) = {"ok"}

(***************************************************************************)
(* C16 (SpecSession).  A request bearing a token whose expiry has passed,  *)
(* or whose subject is the username of no stored User, is answered 401 by  *)
(* refresh_token and by the admin routes and changes nothing: the tokens   *)
(* of a deleted user are rejected for as long as no User has the username. *)
(***************************************************************************)
Unauthorized == resp'.status = 401 /\ users' = users /\ tokens' = tokens

Stale(tok) == now > tok.exp \/ \A u \in users : u.username # tok.sub

C16_StaleTokenIsRejected ==
    [][\A tok \in tokens :
          Stale(tok) =>
             /\ (resp'.op = "refresh_token" /\ refresh_token(tok)) => Unauthorized
             /\ \A id \in UserIds :
                   /\ (resp'.op = "delete_user" /\ delete_user(tok, id, ""))
                         => Unauthorized
                   /\ (resp'.op = "toggle_admin_status" /\ toggle_admin_status(tok, id))
                         => Unauthorized
             /\ (resp'.op = "create_user"
                    /\ create_user(tok, "old", "a@x.io", "pw", FALSE)) => Unauthorized]_vars

\* the unexpired token of a deleted user was refused
C16_Witness ==
    /\ resp.status = 401 /\ resp.detail = "User not found"
    /\ resp.op = "refresh_token"
    /\ \E tok \in tokens :
          /\ now < tok.exp
          /\ \A u \in users : u.username # tok.sub

(***************************************************************************)
(* C17 (SpecVerifyRace).  The claim: each OTP record yields at most one    *)
(* successful verify_otp, also when two verify_otp requests for the same   *)
(* email and code interleave between the lookup of the unused record and   *)
(* the update to is_used: every success consumes a record that was unused  *)
(* until then.                                                             *)
(***************************************************************************)
C17_OneSuccessPerRecord ==
    [][\A p \in Tasks :
          (calls[p] # Idle /\ verify_otp_update(p) /\ resp'.status = 200) =>
             \E r \in otps : r.id = calls[p].otp_id /\ ~r.is_used]_vars

(***************************************************************************)
(* C18 (Spec).  A verify_otp that fails, with "Invalid OTP" or with "OTP    *)
(* has expired", leaves every OTP record and every User exactly as before: *)
(* the expired record that matched is still stored and still unused.       *)
(***************************************************************************)
C18_FailedVerifyChangesNothing ==
    [][\A e \in Emails, c \in Codes :
          (verify_otp(e, c) /\ resp'.status # 200) =>
             /\ resp'.status = 400
             /\ resp'.detail \in {"Invalid OTP", "OTP has expired"}
             /\ otps' = otps /\ users' = users
             /\ resp'.detail = "OTP has expired" =>
                   \E r \in otps' :
                      /\ r.email = e /\ r.otp_code = c /\ ~r.is_used
                      /\ now > r.expires_at]_vars

\* an expired code was refused and its record is still stored, unused
C18_Witness ==
    /\ resp.op = "verify_otp" /\ resp.detail = "OTP has expired"
    /\ \E r \in otps : r.email = resp.email /\ ~r.is_used /\ now > r.expires_at

(***************************************************************************)
(* C19 (Spec).  Original claim: resend_otp(email) leaves every used OTP    *)
(* record of the email in place, the only records it removes being the     *)
(* email's unused ones, so a verification completed before the resend      *)
(* still satisfies register after it.                                      *)
(***************************************************************************)
StillVerified(e) ==
    \A u \in RegisterUsernames :
        RegisterOutcome(u, e) = "ok" => VerifiedOtps(e)' # {}

C19_Original ==
    [][\A e \in Emails, c \in Codes :
          (resend_otp(e, c) /\ resp'.status = 200) =>
             /\ otps \ otps' \subseteq UnusedOf(e)
             /\ VerifiedOtps(e) \subseteq otps'
             /\ StillVerified(e)]_vars

\* C19, amended: resend_otp(email) removes the email's unused records and,
\* through its sweep, the expired records of every email, used ones included;
\* every used record of the email that has not expired stays in place, so a
\* verification completed before the resend still satisfies register after it
\* provided its record had not expired by the time of the resend.
Swept == {r \in otps : r.expires_at < now}

C19_ResendKeepsUnexpiredUsedRecords ==
    [][\A e \in Emails, c \in Codes :
          (resend_otp(e, c) /\ resp'.status = 200) =>
             /\ otps \ otps' = UnusedOf(e) \cup Swept
             /\ VerifiedOtps(e) \ Swept \subseteq otps'
             /\ VerifiedOtps(e) \ Swept # {} => StillVerified(e)]_vars

\* after a resend a used record of the email is still stored
C19_Witness ==
    /\ resp.op = "resend_otp" /\ resp.status = 200
    /\ \E r \in otps : r.email = resp.email /\ r.is_used
    /\ \E r \in otps : r.email = resp.email /\ ~r.is_used
                          /\ r.otp_code = resp.otp_code

(***************************************************************************)
(* C20 (SpecRate).  resend_otp is never rate limited: for an email that    *)
(* belongs to no User it succeeds, stores a new unused record expiring in  *)
(* 10 minutes and returns the code, however many records of the email were *)
(* created in the last hour, also where send_otp answers 429.              *)
(***************************************************************************)
C20_ResendIsNeverRateLimited ==
    [][\A e \in Emails, c \in Codes :
          ((\A u \in users : u.email # e) /\ resend_otp(e, c)) =>
             /\ resp'.status = 200 /\ resp'.otp_code = c
             /\ \E r \in otps' \ otps :
                   /\ r.email = e /\ r.otp_code = c /\ ~r.is_used
                   /\ r.created_at = now /\ r.expires_at = now + 10]_vars

\* a resend succeeded in the minute in which five send_otp calls succeeded
\* and a sixth was rate limited
C20_Witness ==
    /\ resp.op = "resend_otp" /\ resp.status = 200
    /\ limitedAt[resp.email] = now
    /\ Cardinality({i \in SendsOf(resp.email) : sendLog[i].time = now}) = RATE_LIMIT

C22_CleanupFailureStillSucceeds ==
    [][\A u \in RegisterUsernames, e \in Emails :
          (register_delete_one_raises(u, e, "pw") /\ users' # users) =>
             /\ users \subseteq users'
             /\ resp'.status = 200]_vars


(***************************************************************************)
(* SpecAdminRace: delete_user and toggle_admin_status served by two tasks  *)
(* whose database calls interleave: get_current_admin (find_one by         *)
(* username), find_one(_id), then delete_one or update_one by _id.         *)
(***************************************************************************)
toggle_admin_status_authenticate(p, tok, user_id) ==
    /\ calls[p] = Idle
    /\ IF AdminOutcome(tok) # "ok"
       THEN Return(p, AuthError("toggle_admin_status", AdminOutcome(tok)))
       ELSE Goto(p, [op |-> "toggle_admin_status", pc |-> "find",
                     admin_id |-> get_current_user(tok).id, user_id |-> user_id,
                     new_admin_status |-> FALSE])
    /\ UNCHANGED <<now, store>>

toggle_admin_status_find(p) ==
    /\ At(p, "toggle_admin_status", "find")
    /\ LET R(status, detail) == Resp("toggle_admin_status", status, detail)
       IN  IF calls[p].user_id = InvalidId
           THEN Return(p, R(400, "Invalid user ID format"))
           ELSE IF ById(users, calls[p].user_id) = {}
           THEN Return(p, R(404, "User not found"))
           ELSE IF calls[p].user_id = calls[p].admin_id
           THEN Return(p, R(400, "Cannot modify your own admin status"))
           ELSE LET user == CHOOSE u \in ById(users, calls[p].user_id) : TRUE
                IN  Goto(p, [calls[p] EXCEPT !.pc = "update",
                                             !.new_admin_status = ~user.is_admin])
    /\ UNCHANGED <<now, store>>

\* update_one({"_id": ...}, {"$set": {"is_admin": new_admin_status}})
toggle_admin_status_update(p) ==
    /\ At(p, "toggle_admin_status", "update")
    /\ users' = {IF u.id = calls[p].user_id
                 THEN [u EXCEPT !.is_admin = calls[p].new_admin_status]
                 ELSE u : u \in users}
    /\ Return(p, Resp("toggle_admin_status", 200, "admin status changed"))
    /\ UNCHANGED <<now, nextUserId, otps, nextOtpId, tokens>>

delete_user_authenticate(p, tok, user_id, admin_confirmation) ==
    /\ calls[p] = Idle
    /\ IF AdminOutcome(tok) # "ok"
       THEN Return(p, AuthError("delete_user", AdminOutcome(tok)))
       ELSE Goto(p, [op |-> "delete_user", pc |-> "find",
                     admin_id |-> get_current_user(tok).id, user_id |-> user_id,
                     admin_confirmation |-> admin_confirmation])
    /\ UNCHANGED <<now, store>>

delete_user_find(p) ==
    /\ At(p, "delete_user", "find")
    /\ LET R(status, detail) == Resp("delete_user", status, detail)
       IN  IF calls[p].user_id = InvalidId
           THEN Return(p, R(400, "Invalid user ID format"))
           ELSE IF ById(users, calls[p].user_id) = {}
           THEN Return(p, R(404, "User not found"))
           ELSE IF calls[p].user_id = calls[p].admin_id
           THEN Return(p, R(400, "Cannot delete your own account"))
           ELSE IF (CHOOSE u \in ById(users, calls[p].user_id) : TRUE).is_admin
                   /\ calls[p].admin_confirmation # DELETE_ADMIN
           THEN Return(p, R(400, "To delete an admin user, you must provide confirmation: 'DELETE ADMIN'"))
           ELSE Goto(p, [calls[p] EXCEPT !.pc = "delete"])
    /\ UNCHANGED <<now, store>>

\* delete_one({"_id": ...})
delete_user_delete(p) ==
    /\ At(p, "delete_user", "delete")
    /\ users' = users \ ById(users, calls[p].user_id)
    /\ Return(p, Resp("delete_user", 200, "deleted successfully"))
    /\ UNCHANGED <<now, nextUserId, otps, nextOtpId, tokens>>

SeededIds == 1..3

NextAdminRace ==
    \/ \E u \in SessionNames :
          /\ LoginOutcome(u, "pw") = "ok" => TokenAllowed(create_access_token(u, now))
          /\ login(u, "pw") /\ UNCHANGED <<logs, calls>>
    \/ \E p \in Tasks, tok \in Bearers, id \in SeededIds :
          toggle_admin_status_authenticate(p, tok, id) /\ UNCHANGED logs
    \/ \E p \in Tasks : toggle_admin_status_find(p) /\ UNCHANGED logs
    \/ \E p \in Tasks : toggle_admin_status_update(p) /\ UNCHANGED logs
    \/ \E p \in Tasks, tok \in Bearers, id \in SeededIds :
          delete_user_authenticate(p, tok, id, DELETE_ADMIN) /\ UNCHANGED logs
    \/ \E p \in Tasks : delete_user_find(p) /\ UNCHANGED logs
    \/ \E p \in Tasks : delete_user_delete(p) /\ UNCHANGED logs
    \/ \E tok \in Bearers, id \in SeededIds :
          bulk_delete_users(tok, <<id>>) /\ UNCHANGED <<logs, calls>>

SpecAdminRace == Init /\ [][NextAdminRace]_vars

(***************************************************************************)
(* C23: a domain-known error raised inside a handler reaches the caller    *)
(* with its own status and message; in particular an administrator calling *)
(* bulk-delete with no user ids is answered 400 "No user IDs provided",    *)
(* never the generic internal error.                                       *)
(***************************************************************************)
C23_EmptyBulkDeleteReportsValidation ==
    [][\A tok \in Bearers :
          (AdminOutcome(tok) = "ok" /\ bulk_delete_users(tok, <<>>)) =>
             /\ resp'.status = 400
             /\ resp'.detail = "No user IDs provided"]_vars


(***************************************************************************)
(* C24 (Spec).  send_otp does not invalidate earlier codes.  A successful  *)
(* send_otp keeps every unused, unexpired record of the email next to the  *)
(* new one; while the unused records matching (email, code) are all        *)
(* unexpired, verify_otp answers 200 and marks exactly one of them used,   *)
(* leaving every other record as it was; and an unused, unexpired record   *)
(* leaves the store only in a successful resend_otp for its email.         *)
(***************************************************************************)
Outstanding(e) == {r \in UnusedOf(e) : ~is_otp_expired(r.expires_at, now)}

C24_SendKeepsEarlierCodes ==
    [][\A e \in Emails :
          /\ \A c \in Codes, s \in BOOLEAN :
                (resp'.op = "send_otp" /\ resp'.status = 200 /\ send_otp(e, c, s)) =>
                   /\ Outstanding(e) \subseteq otps'
                   /\ Cardinality(UnusedOf(e)') >= Cardinality(Outstanding(e)) + 1
          /\ \A c \in Codes :
                (/\ resp'.op = "verify_otp"
                 /\ MatchesIn(otps, e, c) # {}
                 /\ MatchesIn(otps, e, c) \subseteq Outstanding(e)
                 /\ verify_otp(e, c)) =>
                   /\ resp'.status = 200
                   /\ \E r \in MatchesIn(otps, e, c) :
                         otps' = (otps \ {r}) \cup {[r EXCEPT !.is_used = TRUE]}
          /\ \A r \in Outstanding(e) :
                (r \notin otps' /\ [r EXCEPT !.is_used = TRUE] \notin otps') =>
                   /\ resp'.op = "resend_otp" /\ resp'.status = 200
                   /\ resp'.email = e]_vars

\* two requests five minutes apart with different codes, both verified
C24_Witness ==
    /\ resp.op = "verify_otp" /\ resp.status = 200
    /\ \E r1, r2 \in otps :
          /\ r1.email = resp.email /\ r2.email = resp.email
          /\ r1.is_used /\ r2.is_used
          /\ r1.otp_code # r2.otp_code
          /\ r1.created_at < r2.created_at
          /\ r2.created_at - r1.created_at < OTP_EXPIRE_MINUTES


(***************************************************************************)
(* C25 (SpecLifecycle).  The claim: a verification is consumed by the      *)
(* registration it enables.  After a successful register for email e no    *)
(* used OTP record of e is stored, so a register for e that follows the    *)
(* deletion of that account is answered "Email not verified".              *)
(***************************************************************************)
C25_RegisterConsumesVerification ==
    [][\A u \in NewUsernames, e \in Emails :
          (resp'.op = "register" /\ resp'.status = 200 /\ register(u, e, "pw"))
             => VerifiedOtps(e)' = {}]_vars


(***************************************************************************)
(* C26 (SpecRate).  send_otp(email) answers 429 exactly when at least five *)
(* stored OTP records of the email have created_at inside the trailing 60  *)
(* minutes, whoever created them and whether or not they are used or       *)
(* expired; the check precedes the already-registered check, so a          *)
(* registered email with five such records is answered 429 and not         *)
(* "Email already registered".                                             *)
(***************************************************************************)
StoredInWindow(e) ==
    {r \in otps : r.email = e /\ now - r.created_at <= RATE_WINDOW_MINUTES}

Orphaned(tok) == ByUsername(users, tok.sub) = {}

C27_TokenBoundToUserRecord ==
    [][\A tok \in tokens : Orphaned(tok) => AuthOutcome(tok)' # "ok"]_vars


(***************************************************************************)
(* C28 (SpecAdminRace).  The claim: once an administrator exists, no       *)
(* sequence of delete_user, bulk_delete_users and toggle_admin_status      *)
(* requests leaves the system with no administrator, also when the         *)
(* requests of two administrators interleave between the admin check, the  *)
(* lookup of the target and the write.                                     *)
(***************************************************************************)
C28_AnAdminRemains == \E u \in users : u.is_admin


(***************************************************************************)
(* C29 (SpecAdmin).  bulk_delete_users with a list of ids removes exactly  *)
(* the stored users named in the list that are neither the caller nor an   *)
(* admin; every id of the list is reported, either in deleted_users or,    *)
(* when it was rejected, in failed_deletions, the ids after a rejected one *)
(* being processed all the same; and total_deleted + total_failed is the   *)
(* number of ids submitted.                                                *)
(***************************************************************************)
Named(ids) == {ids[k] : k \in DOMAIN ids}

C29_BulkDeleteSparesAdminsAndCaller ==
    [][\A tok \in Bearers, ids \in IdLists :
          (/\ resp'.op = "bulk_delete_users"
           /\ AdminOutcome(tok) = "ok" /\ ids # <<>>
           /\ bulk_delete_users(tok, ids)) =>
             LET caller == get_current_user(tok)
                 Deletable == {u \in users : /\ u.id \in Named(ids)
                                             /\ u.id # caller.id /\ ~u.is_admin}
             IN  /\ resp'.status = 200
                 /\ users' = users \ Deletable
                 /\ Named(resp'.deleted) = {u.id : u \in Deletable}
                 /\ {f.id : f \in Named(resp'.failed)} \cup Named(resp'.deleted)
                       = Named(ids)
                 /\ Len(resp'.deleted) + Len(resp'.failed) = Len(ids)]_vars

\* another admin and a plain user were named: the admin was refused and
\* stays stored, the plain user was deleted
C29_Witness ==
    /\ resp.op = "bulk_delete_users" /\ resp.status = 200
    /\ Len(resp.deleted) = 1 /\ Len(resp.failed) = 1
    /\ resp.failed[1].reason = "Cannot delete other admin users"
    /\ \E u \in users : u.id = resp.failed[1].id /\ u.is_admin
    /\ \A u \in users : u.id # resp.deleted[1]


(***************************************************************************)
(* C30 (Spec).  register does not look at the expiry of the used record.   *)
(* With a free username and a free email it succeeds whenever a used       *)
(* record of the email is stored, also when every such record has expired; *)
(* a sweep (at start-up, in send_otp or in resend_otp) made when all the   *)
(* used records of an email have expired leaves none of them, and from     *)
(* then on register answers "Email not verified" for as long as no used    *)
(* record of the email is stored.                                          *)
(***************************************************************************)
UsedOf(e) == {r \in otps : r.email = e /\ r.is_used}

AllUsedExpired(e) == UsedOf(e) # {} /\ \A r \in UsedOf(e) : now > r.expires_at

Sweeping ==
    \/ resp'.op = "startup"
    \/ resp'.op \in {"send_otp", "resend_otp"} /\ resp'.status = 200

NotVerified == "Email not verified. Please verify your email with OTP first."

C30_RegisterIgnoresExpiryUntilSwept ==
    [][\A e \in Emails :
          /\ \A u \in RegisterUsernames :
                (/\ resp'.op = "register"
                 /\ ByUsername(users, u) = {} /\ ByEmail(users, e) = {}
                 /\ register(u, e, "pw")) =>
                   IF UsedOf(e) # {}
                   THEN /\ resp'.status = 200
                        /\ \E n \in users' \ users : n.username = u /\ n.email = e
                   ELSE /\ resp'.status = 400 /\ resp'.detail = NotVerified
                        /\ users' = users
          /\ (Sweeping /\ AllUsedExpired(e)) => UsedOf(e)' = {}]_vars

\* a registration succeeded while both used records of the email, the one it
\* consumed and the later one still stored, had expired
C30_Witness ==
    /\ resp.op = "register" /\ resp.status = 200
    /\ nextOtpId = 3
    /\ \E r \in otps : /\ otps = {r} /\ r.id = 2
                       /\ r.email = resp.email /\ r.is_used
                       /\ now > r.expires_at

====
